---- MODULE Spec2Model ----
(***************************************************************************)
(* A model of the Kafka/Avro handler: the Confluent header stripping and   *)
(* Avro decoding of avro_handler.py, the response transform and the        *)
(* function entry point of KafkaAvroHandler/__init__.py, the producer of   *)
(* avro_producer.py, and the logging context of util_context.py and        *)
(* util_log.py.                                                            *)
(***************************************************************************)
EXTENDS Integers, Sequences, FiniteSets, TLC

VARIABLES
    strip_call,     \* the last _deserialize_with_schema call and its outcome
    proc_call,      \* the last call of process and its outcome
    uuid_count,     \* how many identifiers uuid.uuid4() has handed out
    generated,      \* the correlation ids process generated, call by call
    calls,          \* how many times process or main has been called
    kwargs,         \* the keyword arguments the producer's configuration got
    producer,       \* AvroMessageProducer._producer
    queue,          \* the messages queued in the producer, oldest first
    closed,         \* whether a call of close() has completed
    pub_call,       \* the last call on the producer and its outcome
    kafka_context,  \* util_context.kafka_context, as the worker holds it
    main_call,      \* the last invocation of main and its outcome
    attempts        \* per event offset, the outcome of its last invocation

procVars == <<proc_call, uuid_count, generated, calls>>
prodVars == <<kwargs, producer, queue, closed, pub_call>>
mainVars == <<kafka_context, main_call, attempts>>
vars == <<strip_call, procVars, prodVars, mainVars>>

----------------------------------------------------------------------------
(* Python values.  Every value is a record whose "type" field names its    *)
(* Python type; a dict carries its items as a function from key to value.  *)

PyNone == [type |-> "NoneType"]
PyStr(s) == [type |-> "str", val |-> s]
PyBytes(s) == [type |-> "bytes", val |-> s]
PyInt(n) == [type |-> "int", val |-> n]
PyDict(items) == [type |-> "dict", items |-> items]

EmptyItems == [k \in {} |-> PyNone]

----------------------------------------------------------------------------
(* Bounds *)

\* Longest raw buffer handed to _deserialize_with_schema in SpecStrip.
MaxLen == 6

\* How many calls of process or main a behaviour holds.
MaxCalls == 2

\* How many messages the producer's queue holds before produce raises
\* BufferError (queue.buffering.max.messages).
MaxQueue == 2

\* The largest elapsed wall time, in ms, the transform measures.
MaxElapsedMs == 1

\* Byte values the buffers are built from.  The largest is 127 so that a
\* schema id stays below 2^31, the range of TLC's integers.
ByteSamples == {0, 2, 127}

RECURSIVE BuffersOfLen(_)
BuffersOfLen(n) ==
    IF n = 0 THEN {<<>>}
    ELSE {Append(b, x) : b \in BuffersOfLen(n - 1), x \in ByteSamples}

Buffers == UNION {BuffersOfLen(n) : n \in 0..MaxLen}

----------------------------------------------------------------------------
(* avro_handler.py *)

\* The schemas loaded by _load_schemas; a handler exists only when both
\* loaded (the constructor re-raises otherwise).
KeySchema == [type |-> "Schema", file |-> "incoming-topic-key.avsc"]
ValueSchema == [type |-> "Schema", file |-> "incoming-topic-value.avsc"]

\* int.from_bytes(b, byteorder='big')
RECURSIVE IntFromBytesBig(_)
IntFromBytesBig(b) ==
    IF Len(b) = 0 THEN 0
    ELSE 256 * IntFromBytesBig(SubSeq(b, 1, Len(b) - 1)) + b[Len(b)]

\* The Confluent wire-format test: a magic byte 0 and at least 5 bytes.
IsConfluentFormatOffByOne(raw_data) == Len(raw_data) > 5 /\ raw_data[1] = 0

IsConfluentFormat(raw_data) == Len(raw_data) >= 5 /\ raw_data[1] = 0

\* Lines 100-112: the payload handed to the decoder, and the schema id when
\* the header was stripped.
StripHeader(raw_data) ==
    IF IsConfluentFormat(raw_data)
    THEN [avro_data |-> SubSeq(raw_data, 6, Len(raw_data)),
          schema_id |-> PyInt(IntFromBytesBig(SubSeq(raw_data, 2, 5)))]
    ELSE [avro_data |-> raw_data, schema_id |-> PyNone]

\* avro.io.DatumReader(schema).read(decoder): the byte strings that encode
\* a datum of the schema decode to it, every other byte string raises.  The
\* schema files are deployment data; the datums below are the ones the
\* response transform tells apart.
KeyDatums ==
    [b \in {<<2>>, <<2, 2>>, <<127>>} |->
        CASE b = <<2>> -> PyDict([correlationId |-> PyStr("abc"),
                                  partitionKey |-> PyStr("p1")])
          [] b = <<2, 2>> -> PyDict([correlationId |-> PyStr("xyz")])
          [] b = <<127>> -> PyDict([partitionKey |-> PyStr("p1")])]

ValueDatums ==
    [b \in {<<2>>, <<2, 2>>, <<127>>, <<127, 2>>} |->
        CASE b = <<2>> -> PyDict([id |-> PyStr("m1"), data |-> PyStr("hi"),
                                  source |-> PyStr("sensorA")])
          [] b = <<2, 2>> -> PyDict([id |-> PyStr("m1"),
                                     source |-> PyStr("sensorA")])
          [] b = <<127>> -> PyDict([data |-> PyStr("hi")])
          [] b = <<127, 2>> -> PyDict([id |-> PyStr("m2"),
                                       data |-> PyStr("hi"),
                                       source |-> PyBytes("\\x01")])]

Datums(schema) == IF schema = KeySchema THEN KeyDatums ELSE ValueDatums

DatumRead(schema, avro_data) ==
    IF avro_data \in DOMAIN Datums(schema)
    THEN [raised |-> FALSE, data |-> Datums(schema)[avro_data]]
    ELSE [raised |-> TRUE, data |-> PyNone]

\* _deserialize_with_schema: strips the header, decodes, logs, and re-raises
\* a decoding error after logging it.
DeserializeWithSchema(raw_data, schema, data_type) ==
    IF schema = PyNone
    THEN [raised |-> TRUE, data |-> PyNone, avro_data |-> <<>>,
          schema_id |-> PyNone, decoded |-> FALSE, logs |-> <<>>]
    ELSE
    LET s == StripHeader(raw_data)
        r == DatumRead(schema, s.avro_data)
        striplog == IF s.schema_id # PyNone
                    THEN <<[level |-> "DEBUG",
                            msg |-> "Stripped Confluent header for "
                                    \o data_type]>>
                    ELSE <<>>
    IN  [raised |-> r.raised,
         data |-> r.data,
         avro_data |-> s.avro_data,
         schema_id |-> s.schema_id,
         decoded |-> TRUE,
         logs |-> striplog \o
                  (IF r.raised
                   THEN <<[level |-> "ERROR",
                           msg |-> "Failed to deserialize Avro "
                                   \o data_type]>>
                   ELSE <<[level |-> "DEBUG",
                           msg |-> "Successfully deserialized "
                                   \o data_type]>>)]

----------------------------------------------------------------------------
(* KafkaAvroHandler/__init__.py: process *)

\* str(uuid.uuid4()) for the n-th identifier handed out: uuid4 draws 122
\* random bits, which the model takes to be an identifier never seen before.
Uuid4(n) == PyStr("uuid-" \o ToString(n))

\* dict.get(k, default)
DictGet(d, k, default) ==
    IF k \in DOMAIN d.items THEN d.items[k] ELSE default

\* str(v)
Str(v) ==
    CASE v.type = "str" -> v.val
      [] v.type = "NoneType" -> "None"
      [] v.type = "bytes" -> "b'" \o v.val \o "'"
      [] v.type = "int" -> ToString(v.val)

\* str.upper() on the strings the transform meets
Upper(s) ==
    CASE s = "hi" -> "HI"
      [] s = "None" -> "NONE"
      [] s = "b'\\x01'" -> "B'\\X01'"
      [] OTHER -> s

\* json.dumps raises TypeError on a value that is not JSON serializable
JsonSerializable(v) == v.type \in {"str", "int", "NoneType"}

JsonValue(v) ==
    CASE v.type = "str" -> "\"" \o v.val \o "\""
      [] v.type = "int" -> ToString(v.val)
      [] v.type = "NoneType" -> "null"

\* json.dumps(processed_data), line 110
JsonDumps(d) ==
    "{\"originalId\": " \o JsonValue(d.originalId)
    \o ", \"processedAt\": " \o JsonValue(d.processedAt)
    \o ", \"transformedData\": " \o JsonValue(d.transformedData)
    \o ", \"source\": " \o JsonValue(d.source) \o "}"

\* Line 79: key.get('correlationId', str(uuid.uuid4())); the default is
\* evaluated, and an identifier drawn, whether or not the key has the field.
CorrelationIdIgnoringKey(key, fresh) == fresh

CorrelationIdOf(key, fresh) == DictGet(key, "correlationId", fresh)

\* Lines 86-91
ProcessedData(correlation_id, value, now) ==
    [originalId |-> correlation_id,
     processedAt |-> PyInt(now),
     transformedData |-> PyStr(Upper(Str(DictGet(value, "data", PyStr(""))))),
     source |-> DictGet(value, "source", PyStr("unknown"))]

\* Whether a step of lines 83-119 raises for a value record: an absent
\* field is read through value.get with a default and raises nothing, so
\* the one step that can raise is json.dumps at line 110.
TransformFailsOnAbsentData(value, processed_data) ==
    \/ "data" \notin DOMAIN value.items
    \/ \E f \in DOMAIN processed_data : ~JsonSerializable(processed_data[f])

TransformFails(value, processed_data) ==
    \E f \in DOMAIN processed_data : ~JsonSerializable(processed_data[f])

\* Lines 96-101 and 130-135
ResponseKey(correlation_id, partition_key, response_type) ==
    PyDict([correlationId |-> correlation_id,
            partitionKey |-> partition_key,
            responseType |-> PyStr(response_type),
            functionName |-> PyStr("KafkaAvroHandler")])

\* Lines 104-119
SuccessValue(id, correlation_id, processed_data, now, elapsed, execution_id) ==
    PyDict([id |-> id,
            correlationId |-> correlation_id,
            timestamp |-> PyInt(now + elapsed),
            status |-> PyStr("SUCCESS"),
            result |-> PyDict([processedData |-> PyStr(JsonDumps(processed_data)),
                               errorMessage |-> PyNone,
                               errorCode |-> PyNone,
                               processingTimeMs |-> PyInt(elapsed),
                               retryCount |-> PyInt(0)]),
            functionName |-> PyStr("KafkaAvroHandler"),
            executionId |-> execution_id,
            version |-> PyStr("1.0")])

\* Lines 137-152
ErrorValueKeepingData(id, correlation_id, message, now, elapsed, execution_id) ==
    PyDict([id |-> id,
            correlationId |-> correlation_id,
            timestamp |-> PyInt(now + elapsed),
            status |-> PyStr("ERROR"),
            result |-> PyDict([processedData |-> PyStr("{}"),
                               errorMessage |-> PyStr(message),
                               errorCode |-> PyStr("PROCESSING_ERROR"),
                               processingTimeMs |-> PyInt(0),
                               retryCount |-> PyInt(0)]),
            functionName |-> PyStr("KafkaAvroHandler"),
            executionId |-> execution_id,
            version |-> PyStr("1.0")])

ErrorValue(id, correlation_id, message, now, elapsed, execution_id) ==
    PyDict([id |-> id,
            correlationId |-> correlation_id,
            timestamp |-> PyInt(now + elapsed),
            status |-> PyStr("ERROR"),
            result |-> PyDict([processedData |-> PyNone,
                               errorMessage |-> PyStr(message),
                               errorCode |-> PyStr("PROCESSING_ERROR"),
                               processingTimeMs |-> PyInt(0),
                               retryCount |-> PyInt(0)]),
            functionName |-> PyStr("KafkaAvroHandler"),
            executionId |-> execution_id,
            version |-> PyStr("1.0")])

ProcessRaised(exc, n, logs) ==
    [raised |-> TRUE, exc |-> exc, uuids |-> n, logs |-> logs,
     response_key |-> PyNone, response_value |-> PyNone]

ProcessReturned(response_key, response_value, n, logs) ==
    [raised |-> FALSE, exc |-> "", uuids |-> n, logs |-> logs,
     response_key |-> response_key, response_value |-> response_value]

\* process(key, value, logger) called when uuid4 has handed out n
\* identifiers, at wall time now, the transform taking elapsed ms.
\*  - key is None: key.get raises AttributeError at line 79, outside the try;
\*  - value is None: value.get raises at line 89, the handler logs it and
\*    its own value.get at line 138 raises again, out of process;
\*  - json.dumps raises TypeError at line 110, after the id default of
\*    line 105 was drawn: the handler returns the error response.
Process(key, value, n, now, elapsed) ==
    IF key.type # "dict"
    THEN ProcessRaised("AttributeError", n, <<>>)
    ELSE
    LET correlation_id == CorrelationIdOf(key, Uuid4(n + 1))
        partition_key == DictGet(key, "partitionKey", PyStr("default"))
    IN  IF value.type # "dict"
        THEN ProcessRaised("AttributeError", n + 1,
                 <<[level |-> "ERROR", msg |-> "Error in processing"]>>)
        ELSE
        LET processed_data == ProcessedData(correlation_id, value, now)
        IN  IF ~TransformFails(value, processed_data)
            THEN ProcessReturned(
                     ResponseKey(correlation_id, partition_key,
                                 "PROCESSING_RESULT"),
                     SuccessValue(DictGet(value, "id", Uuid4(n + 2)),
                                  correlation_id, processed_data, now,
                                  elapsed, Uuid4(n + 3)),
                     n + 3,
                     <<[level |-> "INFO", msg |-> "Generated response - Key"],
                       [level |-> "INFO",
                        msg |-> "Generated response - Value"]>>)
            ELSE ProcessReturned(
                     ResponseKey(correlation_id, partition_key,
                                 "ERROR_RESPONSE"),
                     ErrorValue(DictGet(value, "id", Uuid4(n + 3)),
                                correlation_id,
                                "Object of type bytes is not JSON serializable",
                                now, elapsed, Uuid4(n + 4)),
                     n + 4,
                     <<[level |-> "ERROR", msg |-> "Error in processing"]>>)

\* The inbound records process is called with: what the decoder yields, an
\* empty record, a null correlation id, and None for a half that failed to
\* decode.
KeySamples ==
    {KeyDatums[b] : b \in DOMAIN KeyDatums}
    \cup {PyNone, PyDict(EmptyItems), PyDict([correlationId |-> PyNone])}

ValueSamples ==
    {ValueDatums[b] : b \in DOMAIN ValueDatums}
    \cup {PyNone, PyDict(EmptyItems), PyDict([source |-> PyBytes("\\x01")])}

\* The record of a call of process kept in proc_call.
ProcCall(key, value, r) ==
    [phase |-> "done", key |-> key, value |-> value, raised |-> r.raised,
     exc |-> r.exc, response_key |-> r.response_key,
     response_value |-> r.response_value]

\* The correlation ids generated so far, with the one of this call added
\* when it returned a response for a key without correlationId.
Generated(key, r) ==
    IF ~r.raised /\ "correlationId" \notin DOMAIN key.items
    THEN Append(generated, r.response_key.items.correlationId)
    ELSE generated

----------------------------------------------------------------------------
(* avro_producer.py *)

\* kwargs.get(name, default)
KwGet(kw, name, default) == IF name \in DOMAIN kw THEN kw[name] ELSE default

\* AvroMessageProducerConfig.__init__, the attributes the producer reads:
\* a keyword that is not passed takes the default written at lines 24-53.
ProducerConfig(kw) ==
    [topic |-> KwGet(kw, "topic", PyStr("response-topic")),
     custom_key_subject |->
         KwGet(kw, "custom_key_subject", PyStr("response-topic-key")),
     custom_value_subject |->
         KwGet(kw, "custom_value_subject", PyStr("response-topic-value"))]

\* Python truth of a str or None
Truthy(v) == v.type = "str" /\ v.val # ""

\* Lines 95-98 and 110-113: the subject.name.strategy lambdas
KeySubject(config) ==
    IF Truthy(config.custom_key_subject) THEN config.custom_key_subject
    ELSE PyStr(config.topic.val \o "-key")

ValueSubject(config) ==
    IF Truthy(config.custom_value_subject) THEN config.custom_value_subject
    ELSE PyStr(config.topic.val \o "-value")

\* The SerializingProducer built at line 129
OpenProducer == [type |-> "SerializingProducer"]

\* Line 212: close leaves no producer behind
ProducerLeftOpen == OpenProducer

ProducerAfterClose == PyNone

\* produce_message(key_data, value_data) on a producer whose queue holds
\* q.  serializes: whether the registry and the outbound schemas accept the
\* record; polled: how many delivery reports poll(0) serves.
\*  - no producer (closed): self._producer.produce raises AttributeError;
\*  - the serializer raises, or the queue is full (BufferError);
\* every error is logged at line 188 and re-raised.
ProduceMessage(config, p, q, key_data, value_data, serializes, polled) ==
    LET failed(exc) ==
            [raised |-> TRUE, exc |-> exc, producer |-> p, queue |-> q,
             logs |-> <<[level |-> "ERROR",
                         msg |-> "Failed to produce message"]>>]
    IN  IF p = PyNone THEN failed("AttributeError")
        ELSE IF ~serializes THEN failed("SerializationError")
        ELSE IF Len(q) >= MaxQueue THEN failed("BufferError")
        ELSE [raised |-> FALSE, exc |-> "", producer |-> p,
              queue |-> SubSeq(Append(q, [topic |-> config.topic,
                                          key_subject |-> KeySubject(config),
                                          value_subject |-> ValueSubject(config),
                                          key |-> key_data,
                                          value |-> value_data]),
                               IF polled > Len(q) + 1 THEN Len(q) + 2
                               ELSE polled + 1,
                               Len(q) + 1),
              logs |-> <<[level |-> "DEBUG",
                          msg |-> "Message queued for production"]>>]

\* flush(timeout): serves delivery reports until the queue is empty or the
\* timeout passes, and returns how many messages remain.
Flush(p, q, remaining) ==
    IF p = PyNone
    THEN [raised |-> TRUE, exc |-> "AttributeError", queue |-> q,
          returned |-> PyNone]
    ELSE [raised |-> FALSE, exc |-> "",
          queue |-> SubSeq(q, Len(q) - remaining + 1, Len(q)),
          returned |-> PyInt(remaining)]

\* close(): flushes and drops the producer when there is one, and does
\* nothing otherwise.  What the flush left in the queue goes with the
\* producer.
Close(p, q, remaining) ==
    IF p # PyNone
    THEN [producer |-> ProducerAfterClose, queue |-> <<>>,
          logs |-> <<[level |-> "INFO",
                      msg |-> "Flushing and closing producer..."]>>
                   \o (IF remaining > 0
                       THEN <<[level |-> "WARNING",
                               msg |-> "messages still in queue after flush"]>>
                       ELSE <<>>)]
    ELSE [producer |-> p, queue |-> q, logs |-> <<>>]

\* Lines 25-29 of KafkaAvroHandler/__init__.py: the module builds its
\* producer once, from the keyword arguments kw.
InitProducerVars(kw) ==
    /\ kwargs = kw
    /\ producer = OpenProducer
    /\ queue = <<>>
    /\ closed = FALSE
    /\ pub_call = [op |-> "none"]

\* The keyword arguments a configuration is built from.
SubjectOverrides == {PyNone, PyStr(""), PyStr("custom-subj")}

KwargsSamples ==
    {kw \in UNION {[names -> {PyStr("orders")} \cup SubjectOverrides] :
                   names \in SUBSET {"topic", "custom_key_subject",
                                     "custom_value_subject"}} :
        /\ "topic" \in DOMAIN kw => kw["topic"] = PyStr("orders")
        /\ \A n \in DOMAIN kw \ {"topic"} : kw[n] \in SubjectOverrides}

\* The response records handed to produce_message.
ResponseSamples ==
    {[key |-> ResponseKey(PyStr("abc"), PyStr("p1"), "PROCESSING_RESULT"),
      value |-> SuccessValue(PyStr("m1"), PyStr("abc"),
                             ProcessedData(PyStr("abc"), PyDict(EmptyItems), 1),
                             1, 0, PyStr("uuid-1"))],
     [key |-> ResponseKey(PyStr("xyz"), PyStr("default"), "ERROR_RESPONSE"),
      value |-> ErrorValue(PyStr("m2"), PyStr("xyz"),
                           "Object of type bytes is not JSON serializable",
                           1, 0, PyStr("uuid-2"))]}

----------------------------------------------------------------------------
(* util_context.py, util_log.py *)

\* KafkaMessageContext(...), the value extract_from_kafka_event stores in
\* the context variable; the variable's default is None.
KafkaMessageContext(message_id, e) ==
    [type |-> "KafkaMessageContext", message_id |-> message_id,
     topic |-> e.topic, partition |-> e.partition, offset |-> e.offset,
     timestamp |-> e.timestamp]

NoDimensions == [k \in {} |-> PyNone]

\* CustomDimensionsFilter.filter: the dimensions a log record gets from the
\* context ctx the variable holds when the record is logged.
CustomDimensions(ctx) ==
    IF ctx # PyNone
    THEN [messageId |-> ctx.message_id, topic |-> ctx.topic,
          partition |-> ctx.partition, offset |-> ctx.offset,
          timestamp |-> ctx.timestamp]
    ELSE NoDimensions

\* The records logs, each with the dimensions the filter adds under ctx.
Stamp(logs, ctx) ==
    [i \in 1..Len(logs) |->
        [level |-> logs[i].level, msg |-> logs[i].msg,
         custom_dimensions |-> CustomDimensions(ctx)]]

----------------------------------------------------------------------------
(* avro_handler.py: deserialize_message, extract_from_kafka_event *)

\* Lines 148 and 156: a half is decoded when its raw bytes are non-empty,
\* whatever became of the other half.
ValueAttemptedUnlessKeyFailed(raw_value, key_failed) ==
    raw_value # <<>> /\ ~key_failed

ValueAttemptedAlways(raw_value, key_failed) == TRUE

ValueAttempted(raw_value, key_failed) == raw_value # <<>>

KeyAttempted(raw_key) == raw_key # <<>>

\* deserialize_message(raw_key, raw_value)
DeserializeMessage(raw_key, raw_value) ==
    LET key_attempted == KeyAttempted(raw_key)
        k == DeserializeWithSchema(raw_key, KeySchema, "key")
        key_failed == key_attempted /\ k.raised
        value_attempted == ValueAttempted(raw_value, key_failed)
        v == DeserializeWithSchema(raw_value, ValueSchema, "value")
        value_failed == value_attempted /\ v.raised
        warning(half) == <<[level |-> "WARNING",
                            msg |-> "Failed to deserialize " \o half]>>
    IN  [called |-> TRUE,
         raised |-> FALSE,
         raw_key |-> raw_key,
         raw_value |-> raw_value,
         key_attempted |-> key_attempted,
         value_attempted |-> value_attempted,
         key_failed |-> key_failed,
         value_failed |-> value_failed,
         key_data |-> IF key_attempted /\ ~k.raised THEN k.data ELSE PyNone,
         value_data |-> IF value_attempted /\ ~v.raised THEN v.data
                        ELSE PyNone,
         logs |-> (IF key_attempted THEN k.logs ELSE <<>>)
                  \o (IF key_failed THEN warning("key") ELSE <<>>)
                  \o (IF value_attempted THEN v.logs ELSE <<>>)
                  \o (IF value_failed THEN warning("value") ELSE <<>>)]

NotDeserialized == [called |-> FALSE]

\* str.encode('latin-1'): a code point above 255 raises UnicodeEncodeError,
\* every other code point becomes the byte of that value.
EncodeLatin1(s) ==
    IF \E i \in 1..Len(s) : s[i] > 255
    THEN [raised |-> TRUE, bytes |-> <<>>]
    ELSE [raised |-> FALSE, bytes |-> [i \in 1..Len(s) |-> s[i] % 256]]

\* extract_from_kafka_event(kafka_event): raises before anything is
\* decoded when the metadata has no 'Key' (KeyError) or the key does not
\* encode; otherwise decodes, and then sets the context variable.
ExtractFromKafkaEvent(e) ==
    LET failed(exc) ==
            [raised |-> TRUE, exc |-> exc, key_data |-> PyNone,
             value_data |-> PyNone, context_set |-> FALSE,
             context |-> PyNone, deser |-> NotDeserialized, logs |-> <<>>]
    IN  IF ~e.has_key THEN failed("KeyError")
        ELSE IF EncodeLatin1(e.key).raised THEN failed("UnicodeEncodeError")
        ELSE
        LET d == DeserializeMessage(EncodeLatin1(e.key).bytes, e.body)
            message_id ==
                IF /\ d.value_data # PyNone
                   /\ DOMAIN d.value_data.items # {}
                   /\ "id" \in DOMAIN d.value_data.items
                THEN d.value_data.items.id
                ELSE PyNone
        IN  [raised |-> FALSE, exc |-> "", key_data |-> d.key_data,
             value_data |-> d.value_data, context_set |-> TRUE,
             context |-> KafkaMessageContext(message_id, e),
             deser |-> d, logs |-> d.logs]

----------------------------------------------------------------------------
(* KafkaAvroHandler/__init__.py: main *)

ErrorProcessing ==
    <<[level |-> "ERROR", msg |-> "Error processing Kafka message"]>>

\* The outcome of main given what its three calls did: x from
\* extract_from_kafka_event, r from process, pm from produce_message.  The
\* calls after one that raised are not made; an error is logged at line 58
\* under the context the variable holds then, and re-raised.
MainOutcome(ctx, n, p, q, x, r, pm) ==
    LET ctx1 == IF x.context_set THEN x.context ELSE ctx
        extracted == Stamp(x.logs, ctx)
                     \o Stamp(<<[level |-> "DEBUG",
                                 msg |-> "Processing Kafka event..."],
                                [level |-> "DEBUG",
                                 msg |-> "Kafka event details"],
                                [level |-> "DEBUG",
                                 msg |-> "Kafka event key"],
                                [level |-> "DEBUG",
                                 msg |-> "Extracted key, value"]>>, ctx1)
        processed == extracted \o Stamp(r.logs, ctx1)
                     \o Stamp(<<[level |-> "DEBUG",
                                 msg |-> "Generated response - Key"],
                                [level |-> "DEBUG",
                                 msg |-> "Generated response - Value"]>>,
                              ctx1)
        result(stage, raised, exc, logs, called, derived) ==
            [stage |-> stage, raised |-> raised, exc |-> exc, logs |-> logs,
             context |-> ctx1, deser |-> x.deser,
             process_called |-> called, process |-> r,
             response_derived |-> derived,
             uuids |-> IF called THEN r.uuids ELSE n,
             producer |-> IF stage = "produce" THEN pm.producer ELSE p,
             queue |-> IF stage = "produce" THEN pm.queue ELSE q]
    IN  IF x.raised
        THEN result("extract", TRUE, x.exc,
                    Stamp(x.logs, ctx) \o Stamp(ErrorProcessing, ctx1),
                    FALSE, FALSE)
        ELSE IF r.raised
        THEN result("process", TRUE, r.exc,
                    extracted \o Stamp(r.logs, ctx1)
                    \o Stamp(ErrorProcessing, ctx1),
                    TRUE, FALSE)
        ELSE IF pm.raised
        THEN result("produce", TRUE, pm.exc,
                    processed \o Stamp(pm.logs, ctx1)
                    \o Stamp(ErrorProcessing, ctx1),
                    TRUE, TRUE)
        ELSE result("produce", FALSE, "",
                    processed \o Stamp(pm.logs, ctx1), TRUE, TRUE)

\* main(kafka_event), run when the context variable holds ctx, uuid4 has
\* handed out n identifiers and the producer p has q queued.
Main(e, ctx, n, config, p, q, serializes, polled, now, elapsed) ==
    CHOOSE m \in
        UNION {UNION {{MainOutcome(ctx, n, p, q, x, r, pm) :
                          pm \in {ProduceMessage(config, p, q, r.response_key,
                                                 r.response_value, serializes,
                                                 polled)}} :
                      r \in {Process(x.key_data, x.value_data, n, now,
                                     elapsed)}} :
               x \in {ExtractFromKafkaEvent(e)}} : TRUE

\* The Kafka events the trigger delivers: metadata key (a str, or no 'Key'
\* entry), body bytes, topic, partition, offset and timestamp.
KafkaEvent(offset, has_key, key, body) ==
    [topic |-> "incoming-topic", partition |-> 0, offset |-> offset,
     timestamp |-> 1000 + offset, has_key |-> has_key, key |-> key,
     body |-> body]

EventSamples ==
    {KafkaEvent(1, TRUE, <<2>>, <<2>>),
     KafkaEvent(2, TRUE, <<0, 0, 0, 0, 2, 127>>, <<0, 0, 0, 0, 2, 2, 2>>),
     KafkaEvent(3, FALSE, <<>>, <<2>>),
     KafkaEvent(4, TRUE, <<8364>>, <<2>>),
     KafkaEvent(5, TRUE, <<127, 127>>, <<2>>),
     KafkaEvent(6, TRUE, <<2>>, <<0, 2>>),
     KafkaEvent(7, TRUE, <<2, 2>>, <<127, 2>>),
     KafkaEvent(8, TRUE, <<>>, <<>>),
     KafkaEvent(9, TRUE, <<0, 0, 0, 0, 2>>, <<127, 127>>),
     KafkaEvent(10, TRUE, <<2>>, <<>>),
     KafkaEvent(11, TRUE, <<>>, <<2>>)}

Offsets == {e.offset : e \in EventSamples}

NoAttempt == [status |-> "none"]

----------------------------------------------------------------------------
(* SpecStrip: _deserialize_with_schema applied to every bounded buffer.    *)

NoStripCall == [phase |-> "none"]

NoProcCall == [phase |-> "none"]

InitMainVars ==
    /\ kafka_context = PyNone
    /\ main_call = [phase |-> "none"]
    /\ attempts = [o \in Offsets |-> NoAttempt]

InitStrip ==
    /\ \E b \in Buffers, t \in {"key", "value"} :
          strip_call = [phase |-> "input", raw_data |-> b, data_type |-> t]
    /\ proc_call = NoProcCall
    /\ uuid_count = 0
    /\ generated = <<>>
    /\ calls = 0
    /\ InitProducerVars(EmptyItems)
    /\ InitMainVars

DeserializeWithSchemaCall ==
    /\ strip_call.phase = "input"
    /\ LET schema == IF strip_call.data_type = "key" THEN KeySchema
                     ELSE ValueSchema
           r == DeserializeWithSchema(strip_call.raw_data, schema,
                                      strip_call.data_type)
       IN  strip_call' = [phase |-> "done",
                          raw_data |-> strip_call.raw_data,
                          data_type |-> strip_call.data_type,
                          avro_data |-> r.avro_data,
                          schema_id |-> r.schema_id,
                          raised |-> r.raised,
                          data |-> r.data]
    /\ UNCHANGED <<procVars, prodVars, mainVars>>

NextStrip == DeserializeWithSchemaCall

SpecStrip == InitStrip /\ [][NextStrip]_vars

----------------------------------------------------------------------------
(* SpecProcess: process called on bounded inbound records.                *)

InitProcess ==
    /\ strip_call = NoStripCall
    /\ proc_call = NoProcCall
    /\ uuid_count = 0
    /\ generated = <<>>
    /\ calls = 0
    /\ InitProducerVars(EmptyItems)
    /\ InitMainVars

ProcessCall ==
    /\ calls < MaxCalls
    /\ \E key \in KeySamples, value \in ValueSamples,
          now \in {1}, elapsed \in 0..MaxElapsedMs :
          LET r == Process(key, value, uuid_count, now, elapsed)
          IN  /\ proc_call' = ProcCall(key, value, r)
              /\ uuid_count' = r.uuids
              /\ generated' = Generated(key, r)
    /\ calls' = calls + 1
    /\ UNCHANGED <<strip_call, prodVars, mainVars>>

NextProcess == ProcessCall

SpecProcess == InitProcess /\ [][NextProcess]_vars

----------------------------------------------------------------------------
(* SpecProducer: a producer built from bounded keyword arguments, and its  *)
(* produce_message, flush and close called in any order.                   *)

InitProducer ==
    /\ strip_call = NoStripCall
    /\ proc_call = NoProcCall
    /\ uuid_count = 0
    /\ generated = <<>>
    /\ calls = 0
    /\ \E kw \in KwargsSamples : InitProducerVars(kw)
    /\ InitMainVars

ProduceMessageCall ==
    /\ \E m \in ResponseSamples, serializes \in BOOLEAN,
          polled \in 0..(Len(queue) + 1) :
          LET r == ProduceMessage(ProducerConfig(kwargs), producer, queue,
                                  m.key, m.value, serializes, polled)
          IN  /\ queue' = r.queue
              /\ pub_call' = [op |-> "produce_message", raised |-> r.raised,
                              exc |-> r.exc, key |-> m.key,
                              key_subject |-> KeySubject(ProducerConfig(kwargs)),
                              value_subject |->
                                  ValueSubject(ProducerConfig(kwargs))]
    /\ UNCHANGED <<kwargs, producer, closed>>
    /\ UNCHANGED <<strip_call, procVars, mainVars>>

FlushCall ==
    /\ \E remaining \in 0..Len(queue) :
          LET r == Flush(producer, queue, remaining)
          IN  /\ queue' = r.queue
              /\ pub_call' = [op |-> "flush", raised |-> r.raised,
                              exc |-> r.exc, returned |-> r.returned]
    /\ UNCHANGED <<kwargs, producer, closed>>
    /\ UNCHANGED <<strip_call, procVars, mainVars>>

CloseCall ==
    /\ \E remaining \in 0..Len(queue) :
          LET r == Close(producer, queue, remaining)
          IN  /\ producer' = r.producer
              /\ queue' = r.queue
              /\ pub_call' = [op |-> "close", raised |-> FALSE, exc |-> "",
                              remaining |-> remaining]
    /\ closed' = TRUE
    /\ UNCHANGED kwargs
    /\ UNCHANGED <<strip_call, procVars, mainVars>>

NextProducer == ProduceMessageCall \/ FlushCall \/ CloseCall

SpecProducer == InitProducer /\ [][NextProducer]_vars

----------------------------------------------------------------------------
(* Spec: the function app.  The trigger calls main with a Kafka event, one *)
(* invocation at a time, and calls it again with the same event after an   *)
(* invocation that raised.                                                 *)

Init ==
    /\ strip_call = NoStripCall
    /\ proc_call = NoProcCall
    /\ uuid_count = 0
    /\ generated = <<>>
    /\ calls = 0
    /\ InitProducerVars(EmptyItems)
    /\ InitMainVars

MainCall ==
    /\ calls < MaxCalls
    /\ \E e \in EventSamples, serializes \in BOOLEAN,
          polled \in 0..(Len(queue) + 1), elapsed \in 0..MaxElapsedMs :
          /\ attempts[e.offset].status # "succeeded"
          /\ \E m \in {Main(e, kafka_context, uuid_count,
                           ProducerConfig(kwargs), producer, queue,
                           serializes, polled, 1, elapsed)} :
             LET correlation_id ==
                     IF m.response_derived
                     THEN m.process.response_key.items.correlationId
                     ELSE PyNone
             IN  /\ main_call' =
                        [phase |-> "done", event |-> e, stage |-> m.stage,
                         raised |-> m.raised, exc |-> m.exc,
                         logs |-> m.logs, deser |-> m.deser,
                         context_before |-> kafka_context,
                         response_derived |-> m.response_derived,
                         correlation_id |-> correlation_id,
                         previous |-> attempts[e.offset]]
                 /\ kafka_context' = m.context
                 /\ uuid_count' = m.uuids
                 /\ proc_call' =
                        IF m.process_called
                        THEN ProcCall(m.deser.key_data, m.deser.value_data,
                                      m.process)
                        ELSE proc_call
                 /\ generated' =
                        IF m.process_called /\ m.deser.key_data # PyNone
                        THEN Generated(m.deser.key_data, m.process)
                        ELSE generated
                 /\ producer' = m.producer
                 /\ queue' = m.queue
                 /\ pub_call' =
                        IF m.stage = "produce"
                        THEN [op |-> "produce_message",
                              raised |-> m.raised, exc |-> m.exc,
                              key |-> m.process.response_key,
                              key_subject |->
                                  KeySubject(ProducerConfig(kwargs)),
                              value_subject |->
                                  ValueSubject(ProducerConfig(kwargs))]
                        ELSE pub_call
                 /\ attempts' =
                        [attempts EXCEPT ![e.offset] =
                            [status |-> IF m.raised THEN "failed"
                                        ELSE "succeeded",
                             response_derived |-> m.response_derived,
                             correlation_id |-> correlation_id]]
    /\ calls' = calls + 1
    /\ UNCHANGED <<strip_call, kwargs, closed>>

Next == MainCall

Spec == Init /\ [][Next]_vars

----------------------------------------------------------------------------
\* C1: for every buffer b, _deserialize_with_schema hands b[5:] to the
\* decoder with schema id big-endian-uint32(b[1:5]) when len(b) >= 5 and
\* b[0] = 0, and hands b unchanged with no schema id otherwise.
C1_StripClassifies ==
    strip_call.phase = "done" =>
        LET b == strip_call.raw_data
        IN  IF Len(b) >= 5 /\ b[1] = 0
            THEN /\ strip_call.avro_data = [i \in 1..(Len(b) - 5) |-> b[i + 5]]
                 /\ strip_call.schema_id =
                        PyInt(b[2] * 16777216 + b[3] * 65536
                              + b[4] * 256 + b[5])
            ELSE /\ strip_call.avro_data = b
                 /\ strip_call.schema_id = PyNone

\* A framed buffer of exactly five bytes with a non-zero schema id was
\* stripped to the empty payload.
C1_Witness ==
    /\ strip_call.phase = "done"
    /\ Len(strip_call.raw_data) = 5
    /\ strip_call.raw_data[1] = 0
    /\ strip_call.avro_data = <<>>
    /\ strip_call.schema_id = PyInt(2 * 16777216 + 127 * 256)

----------------------------------------------------------------------------
(* Claims about process, checked under SpecProcess.                        *)

Returned == proc_call.phase = "done" /\ ~proc_call.raised

ResultOf(response_value) == response_value.items.result.items

\* C2: process never raises: every call returns a response pair that is
\* either SUCCESS with responseType PROCESSING_RESULT or ERROR with
\* responseType ERROR_RESPONSE, errorCode PROCESSING_ERROR and
\* processingTimeMs 0.
C2_ProcessNeverRaises ==
    proc_call.phase = "done" =>
        /\ ~proc_call.raised
        /\ LET k == proc_call.response_key.items
               v == proc_call.response_value.items
           IN  \/ /\ v.status = PyStr("SUCCESS")
                  /\ k.responseType = PyStr("PROCESSING_RESULT")
               \/ /\ v.status = PyStr("ERROR")
                  /\ k.responseType = PyStr("ERROR_RESPONSE")
                  /\ ResultOf(proc_call.response_value).errorCode
                         = PyStr("PROCESSING_ERROR")
                  /\ ResultOf(proc_call.response_value).processingTimeMs
                         = PyInt(0)

\* C3: a returned response echoes the key's correlationId in both the
\* response key and the response value; for a key without correlationId
\* both carry one freshly generated, non-empty identifier that no other
\* call generated.
C3_CorrelationId ==
    /\ \A i, j \in 1..Len(generated) : i # j => generated[i] # generated[j]
    /\ Returned =>
        LET inbound == proc_call.key.items
            rk == proc_call.response_key.items.correlationId
            rv == proc_call.response_value.items.correlationId
        IN  /\ rk = rv
            /\ "correlationId" \in DOMAIN inbound => rk = inbound.correlationId
            /\ "correlationId" \notin DOMAIN inbound =>
                   /\ rk.type = "str"
                   /\ rk.val # ""
                   /\ Len(generated) >= 1
                   /\ rk = generated[Len(generated)]

\* Two calls with keys lacking correlationId have both returned, and so
\* has a call that echoed a correlationId (the last call is one or the
\* other; the first conjunct picks the generated case).
C3_Witness ==
    /\ Returned
    /\ "correlationId" \notin DOMAIN proc_call.key.items
    /\ Len(generated) = 2

\* C8: every returned response value has exactly one of processedData and
\* errorMessage non-null: processedData with status SUCCESS, errorMessage
\* with status ERROR.
C8_ExactlyOneResult ==
    Returned =>
        LET status == proc_call.response_value.items.status
            result == ResultOf(proc_call.response_value)
        IN  /\ status \in {PyStr("SUCCESS"), PyStr("ERROR")}
            /\ (result.processedData # PyNone) # (result.errorMessage # PyNone)
            /\ (result.processedData # PyNone) <=> (status = PyStr("SUCCESS"))
            /\ (result.errorMessage # PyNone) <=> (status = PyStr("ERROR"))

\* An error response was returned.
C8_Witness ==
    /\ Returned
    /\ proc_call.response_value.items.status = PyStr("ERROR")
    /\ ResultOf(proc_call.response_value).errorMessage
           = PyStr("Object of type bytes is not JSON serializable")

DataAbsent ==
    /\ proc_call.phase = "done"
    /\ proc_call.key.type = "dict"
    /\ proc_call.value.type = "dict"
    /\ "data" \notin DOMAIN proc_call.value.items

\* C9 as stated: for an inbound value whose data field is absent, process
\* returns status ERROR, errorCode PROCESSING_ERROR and processedData None,
\* and does not raise.
C9_DataAbsentIsError ==
    DataAbsent =>
        /\ ~proc_call.raised
        /\ proc_call.response_value.items.status = PyStr("ERROR")
        /\ ResultOf(proc_call.response_value).errorCode
               = PyStr("PROCESSING_ERROR")
        /\ ResultOf(proc_call.response_value).processedData = PyNone

\* C9 as amended: for an inbound key record and an inbound value record
\* whose data field is absent, process does not raise, and the absent
\* field is no failure: the response is SUCCESS with errorCode None and a
\* non-null processedData, unless a field of the processed payload (the
\* correlation id or the source) is not JSON serializable, and only then it
\* is ERROR with errorCode PROCESSING_ERROR and processedData None.
C9_DataAbsentIsSuccess ==
    DataAbsent =>
        /\ ~proc_call.raised
        /\ LET inbound == proc_call.value.items
               key == proc_call.key.items
               result == ResultOf(proc_call.response_value)
               unserializable ==
                   \/ "source" \in DOMAIN inbound
                      /\ inbound.source.type = "bytes"
                   \/ "correlationId" \in DOMAIN key
                      /\ key.correlationId.type = "bytes"
           IN  IF unserializable
               THEN /\ proc_call.response_value.items.status = PyStr("ERROR")
                    /\ result.errorCode = PyStr("PROCESSING_ERROR")
                    /\ result.processedData = PyNone
               ELSE /\ proc_call.response_value.items.status
                           = PyStr("SUCCESS")
                    /\ result.errorCode = PyNone
                    /\ result.processedData # PyNone

\* The empty value record was transformed: transformedData is "" and
\* source is "unknown".
C9_Witness ==
    /\ DataAbsent
    /\ proc_call.key = PyDict([correlationId |-> PyStr("abc"),
                               partitionKey |-> PyStr("p1")])
    /\ proc_call.value = PyDict(EmptyItems)
    /\ ~proc_call.raised
    /\ ResultOf(proc_call.response_value).processedData =
           PyStr("{\"originalId\": \"abc\", \"processedAt\": 1, "
                 \o "\"transformedData\": \"\", \"source\": \"unknown\"}")

----------------------------------------------------------------------------
(* Claims about the producer, checked under SpecProducer.                  *)

\* C4: once close() has completed the producer stays closed, and every
\* later produce_message raises and enqueues nothing.
C4_ClosedStaysClosed ==
    [][closed =>
          /\ closed'
          /\ producer' = PyNone
          /\ queue' = queue
          /\ pub_call'.op = "produce_message" => pub_call'.raised]_vars

\* A produce_message after close() raised on the missing producer.
C4_Witness ==
    /\ closed
    /\ producer = PyNone
    /\ pub_call.op = "produce_message"
    /\ pub_call.raised
    /\ pub_call.exc = "AttributeError"

\* C7: the key (value) serializer's subject is the custom subject when one
\* was provided and is non-empty, and "<topic>-key" ("<topic>-value") for
\* the configured outbound topic otherwise.
C7_SubjectResolution ==
    LET topic == KwGet(kwargs, "topic", PyStr("response-topic"))
        provided(name) ==
            /\ name \in DOMAIN kwargs
            /\ kwargs[name].type = "str"
            /\ kwargs[name].val # ""
    IN  pub_call.op = "produce_message" /\ ~pub_call.raised =>
            /\ pub_call.key_subject =
                   IF provided("custom_key_subject")
                   THEN kwargs["custom_key_subject"]
                   ELSE PyStr(topic.val \o "-key")
            /\ pub_call.value_subject =
                   IF provided("custom_value_subject")
                   THEN kwargs["custom_value_subject"]
                   ELSE PyStr(topic.val \o "-value")

----------------------------------------------------------------------------
(* Claims about main, checked under Spec.                                  *)

Deserialized == main_call.phase = "done" /\ main_call.deser.called

\* C5: in deserialize_message the key and the value are decoded
\* independently: each non-empty half is attempted whatever became of the
\* other, a failed half is None and the other half keeps its decoded
\* record, and deserialize_message does not raise.
C5_IndependentDecoding ==
    Deserialized =>
        LET d == main_call.deser
        IN  /\ ~d.raised
            /\ d.key_attempted <=> (d.raw_key # <<>>)
            /\ d.value_attempted <=> (d.raw_value # <<>>)
            /\ d.key_failed => d.key_data = PyNone
            /\ d.value_failed => d.value_data = PyNone
            /\ d.key_attempted /\ ~d.key_failed => d.key_data.type = "dict"
            /\ d.value_attempted /\ ~d.value_failed =>
                   d.value_data.type = "dict"
            /\ main_call.stage # "extract"

\* The key failed to decode and the value was decoded all the same.
C5_Witness ==
    /\ Deserialized
    /\ main_call.deser.key_failed
    /\ main_call.deser.value_attempted
    /\ main_call.deser.value_data.type = "dict"

\* C6: whenever extraction, transform or publish fails inside main, main
\* logs the error with the context (message id, topic, partition, offset)
\* of the message of this invocation in effect at that log record, and
\* then re-raises.  main's error record is the last one it logs.
C6_ErrorLoggedWithOwnContext ==
    main_call.phase = "done" /\ main_call.raised =>
        LET e == main_call.event
            last == main_call.logs[Len(main_call.logs)]
            dims == last.custom_dimensions
        IN  /\ last.level = "ERROR"
            /\ last.msg = "Error processing Kafka message"
            /\ DOMAIN dims =
                   {"messageId", "topic", "partition", "offset", "timestamp"}
            /\ dims.topic = e.topic
            /\ dims.partition = e.partition
            /\ dims.offset = e.offset

\* What does hold of the code: a failure of the transform or of the
\* publish comes after the context was set, and is logged under the
\* invocation's own context.
ErrorAfterExtractionHasOwnContext ==
    main_call.phase = "done" /\ main_call.raised
    /\ main_call.stage # "extract" =>
        LET last == main_call.logs[Len(main_call.logs)]
        IN  /\ last.level = "ERROR"
            /\ last.custom_dimensions.offset = main_call.event.offset

Retried ==
    /\ main_call.phase = "done"
    /\ main_call.previous.status = "failed"
    /\ main_call.previous.response_derived
    /\ main_call.response_derived

\* C10 as stated: an invocation of main retried on the same record derives
\* a response with the correlation id of the earlier attempt, for every
\* inbound key.
C10_RetrySameCorrelationId ==
    Retried => main_call.correlation_id = main_call.previous.correlation_id

\* C10 as amended: an invocation of main retried on the same record derives
\* a response with the correlation id of the earlier attempt, for every
\* inbound key that has a correlationId field.
C10_RetrySameCorrelationIdWhenKeyed ==
    Retried =>
        LET key == main_call.deser.key_data.items
        IN  "correlationId" \in DOMAIN key =>
                /\ main_call.correlation_id = key.correlationId
                /\ main_call.previous.correlation_id = main_call.correlation_id

\* A record whose key has a correlationId failed at publish and was retried.
C10_Witness ==
    /\ Retried
    /\ "correlationId" \in DOMAIN main_call.deser.key_data.items
    /\ main_call.correlation_id = PyStr("abc")

----------------------------------------------------------------------------
(* Claims about empty buffers, failed decoding and the logging context,    *)
(* checked under Spec.                                                     *)

FailureLogged(d, half) ==
    \E i \in 1..Len(d.logs) :
        d.logs[i].msg \in {"Failed to deserialize " \o half,
                           "Failed to deserialize Avro " \o half}

\* C11 as stated: a 0-byte raw key or value is treated as unframed, a
\* decode is attempted against the empty buffer and fails, and the failure
\* is reported as None for that half, not raised out of
\* deserialize_message.
C11_EmptyHalfDecodeAttempted ==
    Deserialized =>
        LET d == main_call.deser
        IN  /\ ~d.raised
            /\ d.raw_key = <<>> =>
                   d.key_attempted /\ d.key_failed /\ d.key_data = PyNone
            /\ d.raw_value = <<>> =>
                   d.value_attempted /\ d.value_failed
                   /\ d.value_data = PyNone

\* C11 as amended: a 0-byte raw key or value is not decoded at all:
\* deserialize_message skips that half, so no decode is attempted and no
\* failure is logged for it, reports None for it, and raises nothing.
C11_EmptyHalfSkipped ==
    Deserialized =>
        LET d == main_call.deser
        IN  /\ ~d.raised
            /\ d.raw_key = <<>> =>
                   /\ ~d.key_attempted
                   /\ ~d.key_failed
                   /\ d.key_data = PyNone
                   /\ ~FailureLogged(d, "key")
            /\ d.raw_value = <<>> =>
                   /\ ~d.value_attempted
                   /\ ~d.value_failed
                   /\ d.value_data = PyNone
                   /\ ~FailureLogged(d, "value")

\* The key was decoded and the 0-byte value was skipped.
C11_Witness ==
    /\ Deserialized
    /\ main_call.deser.raw_value = <<>>
    /\ main_call.deser.key_data.type = "dict"
    /\ main_call.deser.value_data = PyNone
    /\ ~main_call.deser.value_attempted

BothFailed ==
    /\ Deserialized
    /\ main_call.deser.key_failed
    /\ main_call.deser.value_failed
    /\ main_call.deser.key_data = PyNone
    /\ main_call.deser.value_data = PyNone

\* C12: when decoding fails for both the key and the value, main does not
\* abort the message: it runs the response transform, which produces a
\* response from empty data, and hands that response to the producer.
C12_BothFailedStillPublishes ==
    BothFailed =>
        /\ main_call.stage # "extract"
        /\ main_call.response_derived
        /\ main_call.stage = "produce"

\* Both halves failed to decode, the transform was run, and it raised.
C12_Witness ==
    /\ BothFailed
    /\ main_call.stage = "process"
    /\ main_call.raised
    /\ main_call.exc = "AttributeError"
    /\ ~main_call.response_derived

\* C13: the context is scoped to one message: once main has returned or
\* raised for a message the context variable no longer holds that
\* message's context, and no record logged while a later message is
\* processed carries an earlier message's context.
C13_ContextScopedToMessage ==
    main_call.phase = "done" =>
        /\ kafka_context = PyNone
        /\ \A i \in 1..Len(main_call.logs) :
               LET dims == main_call.logs[i].custom_dimensions
               IN  \/ dims = NoDimensions
                   \/ dims.offset = main_call.event.offset

\* A decode-failure record of a later message was logged under the
\* context an earlier message left in the variable.
C13_Witness ==
    /\ main_call.phase = "done"
    /\ main_call.context_before # PyNone
    /\ main_call.context_before.offset # main_call.event.offset
    /\ \E i \in 1..Len(main_call.logs) :
          /\ main_call.logs[i].msg = "Failed to deserialize key"
          /\ main_call.logs[i].custom_dimensions
                 = CustomDimensions(main_call.context_before)

====
